---- MODULE Spec2Model ----
\* Hybrid book recommender: the recommend() function of
\* src/streamlit/book_rec_app.py and the Streamlit script of
\* src/streamlit/.ipynb_checkpoints/book_rec_app-checkpoint.py, modelled as one
\* request that runs from its inputs to its outcome.
\*
\* Numbers.  Similarities are integers 0..SimScale standing for s/SimScale.
\* Raw weights are integers in hundredths (the sliders' step is 0.01).
\* Ratings and min_rating are integers in hundredths of a star.  Normalised
\* weights and composite scores are exact rationals <<num, den>> in lowest
\* terms; floating-point rounding is not modelled.
\* Text is a sequence of one-character strings: the letters "a", "b" and "A",
\* the space and the full stop.
EXTENDS Integers, Sequences, FiniteSets

\* ------------------------------------------------------------------ bounds
MaxItems == 5
SimScale == 1
MaxWeight == 1

\* ------------------------------------------------------- program constants
DefaultN == 10
MinN == 3

\* --------------------------------------------------------------- rationals
RECURSIVE GCD(_, _)
GCD(a, b) == IF b = 0 THEN a ELSE GCD(b, a % b)

Rat(num, den) == LET g == GCD(num, den) IN <<num \div g, den \div g>>

RatAdd(x, y) == Rat(x[1] * y[2] + y[1] * x[2], x[2] * y[2])

RatMul(x, y) == Rat(x[1] * y[1], x[2] * y[2])

RatDiv(x, y) == Rat(x[1] * y[2], x[2] * y[1])

RatLess(x, y) == x[1] * y[2] < y[1] * x[2]

RatLeq(x, y) == x[1] * y[2] <= y[1] * x[2]

Zero == Rat(0, 1)

One == Rat(1, 1)

\* A similarity matrix entry as a number in [0,1].
Sim(s) == Rat(s, SimScale)

\* A raw weight (hundredths) as a number.
Weight(h) == Rat(h, 100)

\* -------------------------------------------------------------------- text
\* str.lower()
LowerChar(c) == IF c = "A" THEN "a" ELSE c

Lower(s) == [i \in DOMAIN s |-> LowerChar(s[i])]

\* str.strip(): leading and trailing whitespace removed
RECURSIVE Strip(_)
Strip(s) ==
    IF s = <<>> THEN s
    ELSE IF Head(s) = " " THEN Strip(Tail(s))
    ELSE IF s[Len(s)] = " " THEN Strip(SubSeq(s, 1, Len(s) - 1))
    ELSE s

\* re.search(pat, s) for patterns of these characters: "." matches any one
\* character, every other character matches itself.
Contains(s, pat) ==
    \E off \in 0..(Len(s) - Len(pat)) :
        \A k \in 1..Len(pat) : pat[k] = "." \/ pat[k] = s[off + k]

\* Plain substring containment (Python's `pat in s`).
HasSubstring(s, pat) ==
    \E off \in 0..(Len(s) - Len(pat)) :
        \A k \in 1..Len(pat) : pat[k] = s[off + k]

\* ----------------------------------------------------------------- dataset
genre_cols == {"fiction", "poetry"}

WeightNames == {"title", "genre", "rating", "year", "cluster"}

Count(d) == Cardinality(DOMAIN d)

Rows(d) == DOMAIN d

VARIABLES
    path,          \* "recommend" or "app": which entry point serves the request
    df,            \* the dataset: row label 0..Count-1 -> item record
    cosine_sim,    \* title/text similarity matrix
    genre_sim,     \* genre similarity matrix
    rating_sim,    \* rating similarity matrix
    year_sim,      \* year similarity matrix
    query,         \* the text typed by the user
    search_mode,   \* app only: "Title", "Author", "Genre", "Keyword"
    n,             \* requested number of recommendations
    weights,       \* the five raw weights as passed in (hundredths)
    min_rating,    \* app only
    genre_filter,  \* app only
    pc,            \* position in the request
    w,             \* the five weight locals (rationals), overwritten by normalisation
    filtered_df,   \* app only: row labels surviving the search mask, in order
    idx,           \* the anchor row label (selected_index in the app), -1 = none
    hybrid_score,  \* composite score per row label (hybrid in the app)
    recs,          \* the returned row labels, in order (top_indices / recs)
    outcome        \* what the request ended with

vars == <<path, df, cosine_sim, genre_sim, rating_sim, year_sim, query,
          search_mode, n, weights, min_rating, genre_filter, pc, w,
          filtered_df, idx, hybrid_score, recs, outcome>>

inputs == <<path, df, cosine_sim, genre_sim, rating_sim, year_sim, query,
            search_mode, n, weights, min_rating, genre_filter>>

\* ------------------------------------------------------------------ inputs
Item(title, author, avg_rating, cluster, genres, all_genres, features_text) ==
    [title |-> title, author |-> author, avg_rating |-> avg_rating,
     cluster |-> cluster, genres |-> genres, all_genres |-> all_genres,
     features_text |-> features_text]

DefaultWeights ==
    [title |-> 45, genre |-> 25, rating |-> 15, year |-> 10, cluster |-> 5]

ScenarioWeights ==
    [title |-> 50, genre |-> 50, rating |-> 0, year |-> 0, cluster |-> 0]

SearchModes == {"Title", "Author", "Genre", "Keyword"}

\* A symmetric matrix with diagonal 1 whose row `hub` is `row` and whose other
\* off-diagonal entries are those of the matrix `rest`.
HubMatrix(rows, hub, row, rest) ==
    [i \in rows |-> [j \in rows |->
        IF i = j THEN SimScale
        ELSE IF i = hub THEN row[j]
        ELSE IF j = hub THEN row[i]
        ELSE rest[i][j]]]

\* No similarity between different items.
NoSim(rows) == [i \in rows |-> [j \in rows |-> 0]]

\* Full similarity between the items of equal row-label parity.
ParitySim(rows) == [i \in rows |-> [j \in rows |-> IF (i + j) % 2 = 0 THEN SimScale ELSE 0]]

IdentityMatrix(rows) == HubMatrix(rows, 0, NoSim(rows)[0], NoSim(rows))

ParityMatrix(rows) == HubMatrix(rows, 0, ParitySim(rows)[0], ParitySim(rows))

\* --- inputs that exercise the resolver: titles, authors, queries, modes
ResolveRows == 0..2

TitlePool == {<<"a", "b">>, <<"A">>, <<"a", ".">>, <<"b">>}

AuthorPool == {<<"a">>, <<"b">>}

QueryPool ==
    {<<>>, <<" ">>, <<"a", ".">>, <<" ", "A", " ">>, <<"b", "b">>, <<"b">>}

InitResolve ==
    /\ \E titles \in [ResolveRows -> TitlePool], authors \in [ResolveRows -> AuthorPool] :
           df = [i \in ResolveRows |->
                    Item(titles[i], authors[i], 400, i % 2, {"fiction"},
                         <<"a">>, IF i % 2 = 0 THEN <<"a">> ELSE <<"b">>)]
    /\ query \in QueryPool
    /\ \/ path = "recommend" /\ search_mode = "Title"
       \/ path = "app" /\ search_mode \in SearchModes
    /\ cosine_sim = ParityMatrix(ResolveRows)
    /\ genre_sim = IdentityMatrix(ResolveRows)
    /\ rating_sim = IdentityMatrix(ResolveRows)
    /\ year_sim = IdentityMatrix(ResolveRows)
    /\ weights = DefaultWeights
    /\ n = IF path = "app" THEN MinN ELSE DefaultN
    /\ min_rating = 0
    /\ genre_filter = {}

\* --- inputs that exercise the score formula: two items, every similarity,
\* --- every small weight vector, same or different cluster
ScoreRows == 0..1

WeightPool ==
    [WeightNames -> 0..MaxWeight] \cup {DefaultWeights, ScenarioWeights}

InitScore ==
    /\ \E c \in 0..1 :
           df = [i \in ScoreRows |->
                    Item(IF i = 0 THEN <<"a">> ELSE <<"b">>, <<"a">>, 400,
                         IF i = 0 THEN 0 ELSE c, {"fiction"}, <<"a">>, <<"a">>)]
    /\ query = <<"a">>
    /\ path \in {"recommend", "app"}
    /\ search_mode = "Title"
    /\ \E t, g, r, y \in 0..SimScale :
           /\ cosine_sim = HubMatrix(ScoreRows, 0, [j \in ScoreRows |-> t], NoSim(ScoreRows))
           /\ genre_sim = HubMatrix(ScoreRows, 0, [j \in ScoreRows |-> g], NoSim(ScoreRows))
           /\ rating_sim = HubMatrix(ScoreRows, 0, [j \in ScoreRows |-> r], NoSim(ScoreRows))
           /\ year_sim = HubMatrix(ScoreRows, 0, [j \in ScoreRows |-> y], NoSim(ScoreRows))
    /\ weights \in WeightPool
    /\ n = IF path = "app" THEN MinN ELSE DefaultN
    /\ min_rating = 0
    /\ genre_filter = {}

\* --- inputs that exercise ranking and filtering: MaxItems items, every
\* --- all-or-nothing title-similarity row of the anchor (with the parity
\* --- genre similarity and the cluster boost this gives four score levels
\* --- and ties), every rating pattern, the filters
RankRows == 0..(MaxItems - 1)

RankTitle(i) == IF i = 0 THEN <<"a">> ELSE IF i = 2 THEN <<"a", "b">> ELSE <<"b">>

RankGenres(i) ==
    IF i % 3 = 0 THEN {"fiction"} ELSE IF i % 3 = 1 THEN {"fiction", "poetry"} ELSE {}

\* query and the row label it resolves to in the ranking dataset
RankAnchors == {<<<<"a">>, 0>>, <<<<"a", "b">>, 2>>}

RatingPool == {380, 400}

\* min_rating and the rating patterns tried with it: with no minimum every
\* pattern passes alike, so one is enough.
RatingCases ==
    {<<0, [i \in RankRows |-> 400]>>}
        \cup {<<400, ratings>> : ratings \in [RankRows -> RatingPool]}

GenreFilterPool == {{}, {"poetry"}, genre_cols}

RecommendN == {2, DefaultN}

InitRank ==
    /\ \E a \in RankAnchors :
           /\ query = a[1]
           /\ \E row \in [RankRows \ {a[2]} -> {0, SimScale}] :
                  cosine_sim = HubMatrix(RankRows, a[2],
                                         [j \in RankRows |-> IF j = a[2] THEN SimScale ELSE row[j]],
                                         NoSim(RankRows))
    /\ genre_sim = ParityMatrix(RankRows)
    /\ rating_sim = IdentityMatrix(RankRows)
    /\ year_sim = IdentityMatrix(RankRows)
    /\ weights = DefaultWeights
    /\ search_mode = "Title"
    /\ \/ /\ path = "recommend"
          /\ n \in RecommendN
          /\ min_rating = 0
          /\ genre_filter = {}
          /\ df = [i \in RankRows |->
                      Item(RankTitle(i), <<"a">>, 400, i % 2, RankGenres(i), <<"a">>, <<"a">>)]
       \/ /\ path = "app"
          /\ n = MinN
          /\ genre_filter \in GenreFilterPool
          /\ \E case \in RatingCases :
                 /\ min_rating = case[1]
                 /\ df = [i \in RankRows |->
                             Item(RankTitle(i), <<"a">>, case[2][i], i % 2, RankGenres(i),
                                  <<"a">>, <<"a">>)]

NoOutcome == [kind |-> "none", query |-> <<>>]

Init ==
    /\ InitResolve \/ InitScore \/ InitRank
    /\ pc = IF path = "app" THEN "normalize" ELSE "match"
    /\ w = [k \in WeightNames |-> Weight(weights[k])]
    /\ filtered_df = <<>>
    /\ idx = -1
    /\ hybrid_score = <<>>
    /\ recs = <<>>
    /\ outcome = NoOutcome

\* ----------------------------------------------------------------- helpers
\* The smallest row label of a non-empty set: the first row in storage order.
FirstRow(S) == CHOOSE i \in S : \A j \in S : i <= j

\* The row labels of S as a sequence in storage order.
RECURSIVE InOrder(_)
InOrder(S) == IF S = {} THEN <<>> ELSE <<FirstRow(S)>> \o InOrder(S \ {FirstRow(S)})

SeqRange(s) == {s[k] : k \in DOMAIN s}

Reverse(s) == [k \in DOMAIN s |-> s[Len(s) + 1 - k]]

\* s[:k] for k >= 0
Take(s, k) == SubSeq(s, 1, IF k < Len(s) THEN k ELSE Len(s))

WeightSum(ws) ==
    RatAdd(RatAdd(RatAdd(RatAdd(ws.title, ws.genre), ws.rating), ws.year), ws.cluster)

\* Each of the five weights divided by their sum.
Normalized(ws) == [k \in WeightNames |-> RatDiv(ws[k], WeightSum(ws))]

\* (df["cluster"] == book_cluster).astype(int)
SameCluster(i, a) == IF df[i].cluster = df[a].cluster THEN One ELSE Zero

\* Mutant: the year term is left out of the sum.
SimilarityPart_NoYear(i, a) ==
    RatAdd(RatAdd(RatMul(w.title, Sim(cosine_sim[a][i])),
                  RatMul(w.genre, Sim(genre_sim[a][i]))),
           RatMul(w.rating, Sim(rating_sim[a][i])))

\* The weighted sum of the four similarity rows of the anchor.
SimilarityPart(i, a) ==
    RatAdd(RatAdd(RatAdd(RatMul(w.title, Sim(cosine_sim[a][i])),
                         RatMul(w.genre, Sim(genre_sim[a][i]))),
                  RatMul(w.rating, Sim(rating_sim[a][i]))),
           RatMul(w.year, Sim(year_sim[a][i])))

\* Mutant: the indicator is added without its weight.
ClusterBoost_Unweighted(i, a) == SameCluster(i, a)

\* The cluster boost of item i for anchor a.
ClusterBoost(i, a) == RatMul(w.cluster, SameCluster(i, a))

Hybrid(a) == [i \in Rows(df) |-> RatAdd(SimilarityPart(i, a), ClusterBoost(i, a))]

\* ------------------------------------------------------ recommend(): match
\* q = query.lower().strip()
NormalizeQuery(s) == Strip(Lower(s))

\* df[df["title"].str.lower().str.contains(q)]
TitleMatches(q) == {i \in Rows(df) : Contains(Lower(df[i].title), q)}

RecNotFound ==
    /\ path = "recommend" /\ pc = "match"
    /\ TitleMatches(NormalizeQuery(query)) = {}
    /\ outcome' = [kind |-> "not_found", query |-> query]
    /\ pc' = "done"
    /\ UNCHANGED <<inputs, w, filtered_df, idx, hybrid_score, recs>>

RecMatch ==
    /\ path = "recommend" /\ pc = "match"
    /\ TitleMatches(NormalizeQuery(query)) # {}
    /\ idx' = FirstRow(TitleMatches(NormalizeQuery(query)))
    /\ pc' = "normalize"
    /\ UNCHANGED <<inputs, w, filtered_df, hybrid_score, recs, outcome>>

\* -------------------------------------------------- both: normalise weights
\* Dividing by a zero sum raises ZeroDivisionError, which nothing catches.
NormalizeFails ==
    /\ pc = "normalize"
    /\ WeightSum(w) = Zero
    /\ outcome' = [kind |-> "ZeroDivisionError", query |-> <<>>]
    /\ pc' = "done"
    /\ UNCHANGED <<inputs, w, filtered_df, idx, hybrid_score, recs>>

Normalize ==
    /\ pc = "normalize"
    /\ WeightSum(w) # Zero
    /\ w' = Normalized(w)
    /\ pc' = IF path = "app" THEN "search" ELSE "score"
    /\ UNCHANGED <<inputs, filtered_df, idx, hybrid_score, recs, outcome>>

\* -------------------------------------------------------------- both: score
Score ==
    /\ pc = "score"
    /\ hybrid_score' = Hybrid(idx)
    /\ pc' = IF path = "app" THEN "rank" ELSE "sort"
    /\ UNCHANGED <<inputs, w, filtered_df, idx, recs, outcome>>

\* ----------------------------------------------- recommend(): sort and cut
\* The rows of S that no row of S scores below.
Lowest(score, S) == {i \in S : \A j \in S : RatLeq(score[i], score[j])}

\* Every arrangement of the rows of S in ascending score order.
RECURSIVE Ascending(_, _)
Ascending(score, S) ==
    IF S = {} THEN {<<>>}
    ELSE UNION {{<<i>> \o rest : rest \in Ascending(score, S \ {i})} : i \in Lowest(score, S)}

\* np.argsort(score) with the default kind: the row labels in ascending score
\* order; the default sort is not stable, so tied rows may come in any order.
ArgSorts(score) == Ascending(score, DOMAIN score)

\* Mutant: the input book is left in the ranking.
WithoutAnchor_Kept(order, a) == order

\* [i for i in indices_sorted if i != idx]
WithoutAnchor(order, a) == SelectSeq(order, LAMBDA i : i # a)

RecSort ==
    /\ path = "recommend" /\ pc = "sort"
    /\ \E indices_sorted \in ArgSorts(hybrid_score) :
           recs' = Take(WithoutAnchor(Reverse(indices_sorted), idx), n)
    /\ outcome' = [kind |-> "rows", query |-> <<>>]
    /\ pc' = "done"
    /\ UNCHANGED <<inputs, w, filtered_df, idx, hybrid_score>>

\* --------------------------------------------------------- app: search mask
\* Section 3 of the script strips the titles and authors before lower-casing.
SearchField(row, mode) ==
    IF mode = "Title" THEN Lower(Strip(row.title))
    ELSE IF mode = "Author" THEN Lower(Strip(row.author))
    ELSE IF mode = "Genre" THEN Lower(row.all_genres)
    ELSE Lower(row.features_text)

SearchMask(q, mode) == {i \in Rows(df) : Contains(SearchField(df[i], mode), q)}

AppSearch ==
    /\ path = "app" /\ pc = "search"
    /\ filtered_df' = IF query # <<>>
                      THEN InOrder(SearchMask(NormalizeQuery(query), search_mode))
                      ELSE InOrder(Rows(df))
    /\ pc' = "select"
    /\ UNCHANGED <<inputs, w, idx, hybrid_score, recs, outcome>>

\* ------------------------------------------------------ app: pick the book
\* f"{row['title']} - {row['author']}"
Label(i) == <<Strip(df[i].title), Strip(df[i].author)>>

\* next(idx for label, idx in options if label == selected_label)
IndexOfLabel(options, selected_label) ==
    options[CHOOSE k \in DOMAIN options :
                /\ Label(options[k]) = selected_label
                /\ \A m \in 1..(k - 1) : Label(options[m]) # selected_label]

AppSelect ==
    /\ path = "app" /\ pc = "select"
    /\ query # <<>> /\ Len(filtered_df) > 0
    /\ \E chosen \in SeqRange(filtered_df) :
           idx' = IndexOfLabel(filtered_df, Label(chosen))
    /\ pc' = "score"
    /\ UNCHANGED <<inputs, w, filtered_df, hybrid_score, recs, outcome>>

AppNoSelection ==
    /\ path = "app" /\ pc = "select"
    /\ ~(query # <<>> /\ Len(filtered_df) > 0)
    /\ outcome' = [kind |-> "search_first", query |-> <<>>]
    /\ pc' = "done"
    /\ UNCHANGED <<inputs, w, filtered_df, idx, hybrid_score, recs>>

\* ---------------------------------------------------- app: rank and filter
\* Mutant of Best: the sort without reverse=True, lowest score first.
Best_Lowest(score, S) ==
    CHOOSE i \in S : \A j \in S \ {i} :
        \/ RatLess(score[i], score[j])
        \/ score[j] = score[i] /\ i < j

\* sorted(list(enumerate(hybrid)), key=lambda x: x[1], reverse=True): highest
\* score first; sorted() is stable, also with reverse=True, so rows of equal
\* score keep their enumeration order.
Best(score, S) ==
    CHOOSE i \in S : \A j \in S \ {i} :
        \/ RatLess(score[j], score[i])
        \/ score[j] = score[i] /\ i < j

RECURSIVE SortedDesc(_, _)
SortedDesc(score, S) ==
    IF S = {} THEN <<>>
    ELSE <<Best(score, S)>> \o SortedDesc(score, S \ {Best(score, S)})

\* Mutant: the rating comparison the wrong way round.
RatingOk_Reversed(i) == ~(df[i].avg_rating > min_rating)

\* The three `continue` tests of the loop.
RatingOk(i) == ~(df[i].avg_rating < min_rating)

GenreOk(i) == genre_filter # {} => \E g \in genre_filter : g \in df[i].genres

Accepted(i, a) == i # a /\ RatingOk(i) /\ GenreOk(i)

\* Mutant: the top `limit` rows of the ranking are cut first and filtered after.
Collect_CutThenFilter(sim_scores, k, a, limit, acc) ==
    SelectSeq(Take(SelectSeq(sim_scores, LAMBDA i : i # a), limit),
              LAMBDA i : Accepted(i, a))

\* The loop from position k of sim_scores, with the rows collected so far.
RECURSIVE Collect(_, _, _, _, _)
Collect(sim_scores, k, a, limit, acc) ==
    IF k > Len(sim_scores) THEN acc
    ELSE IF ~Accepted(sim_scores[k], a) THEN Collect(sim_scores, k + 1, a, limit, acc)
    ELSE IF Len(acc) + 1 >= limit THEN Append(acc, sim_scores[k])
    ELSE Collect(sim_scores, k + 1, a, limit, Append(acc, sim_scores[k]))

AppRank ==
    /\ path = "app" /\ pc = "rank"
    /\ recs' = Collect(SortedDesc(hybrid_score, DOMAIN hybrid_score), 1, idx, n, <<>>)
    /\ outcome' = [kind |-> IF Len(recs') = 0 THEN "warning" ELSE "table", query |-> <<>>]
    /\ pc' = "done"
    /\ UNCHANGED <<inputs, w, filtered_df, idx, hybrid_score>>

Next ==
    \/ RecNotFound
    \/ RecMatch
    \/ NormalizeFails
    \/ Normalize
    \/ Score
    \/ RecSort
    \/ AppSearch
    \/ AppSelect
    \/ AppNoSelection
    \/ AppRank

Spec == Init /\ [][Next]_vars

\* ================================================================== claims
\* A ranked list was returned: recommend()'s rows or the app's recs (the app
\* renders an empty recs as a warning).
Returned == pc = "done" /\ outcome.kind \in {"rows", "table", "warning"}

\* The filters of a FilterSpec, stated on the item's attributes.
PassesFilters(i) ==
    /\ df[i].avg_rating >= min_rating
    /\ genre_filter # {} => df[i].genres \cap genre_filter # {}

Passing == {i \in Rows(df) \ {idx} : PassesFilters(i)}

\* C1: the anchor item never appears in a returned recommendation list,
\* whichever of the two ranking paths produced it.
C1_AnchorExcluded == Returned => idx \notin SeqRange(recs)

\* A request whose anchor is not the first row returned every other row.
C1_Witness ==
    /\ Returned
    /\ idx > 0
    /\ Len(recs) = Count(df) - 1
    /\ Count(df) = MaxItems

\* C2: every returned item has avg_rating >= min_rating and, when
\* genre_filter is non-empty, at least one genre flag that is in genre_filter.
C2_FiltersHold == Returned => \A k \in DOMAIN recs : PassesFilters(recs[k])

\* Items were returned while one row failed the rating filter only and
\* another failed the genre filter only.
C2_Witness ==
    /\ Returned
    /\ Len(recs) > 0
    /\ genre_filter # {}
    /\ \E i, j \in Rows(df) \ {idx} :
           /\ df[i].avg_rating < min_rating /\ df[i].genres \cap genre_filter # {}
           /\ df[j].avg_rating >= min_rating /\ df[j].genres \cap genre_filter = {}

\* C3: a request that reached the ranking ends with a list, not an error,
\* whose length is min(N, number of non-anchor items passing the filters); it
\* is empty when no item passes.
C3_LengthIsMin ==
    pc = "done" /\ hybrid_score # <<>> =>
        /\ Returned
        /\ Len(recs) = IF n < Cardinality(Passing) THEN n ELSE Cardinality(Passing)
        /\ Passing = {} => recs = <<>>

\* Exactly N items were returned although a row that fails the filters
\* scores strictly higher than the last returned item.
C3_Witness ==
    /\ pc = "done" /\ outcome.kind = "table"
    /\ Len(recs) = n
    /\ \E i \in Rows(df) \ {idx} :
           /\ ~PassesFilters(i)
           /\ RatLess(hybrid_score[recs[n]], hybrid_score[i])

\* C4: any two returned items with identical composite scores appear in
\* ascending storage-index order, on both ranking paths.
C4_TiesAscending ==
    Returned =>
        \A p, q \in DOMAIN recs :
            p < q /\ hybrid_score[recs[p]] = hybrid_score[recs[q]] => recs[p] < recs[q]

\* C5: a returned list is in non-increasing score order, and no item left out
\* only because N was reached scores strictly higher than a returned item.
C5_SortedDescending ==
    Returned =>
        /\ \A p, q \in DOMAIN recs :
               p < q => RatLeq(hybrid_score[recs[q]], hybrid_score[recs[p]])
        /\ \A i \in Passing \ SeqRange(recs) : \A k \in DOMAIN recs :
               ~RatLess(hybrid_score[recs[k]], hybrid_score[i])

\* A truncated list holding two different scores, with a passing item left out.
C5_Witness ==
    /\ Returned
    /\ Len(recs) = n
    /\ Passing \ SeqRange(recs) # {}
    /\ RatLess(hybrid_score[recs[n]], hybrid_score[recs[1]])

\* The rows whose lower-cased title contains the trimmed, lower-cased query
\* as a substring.
SubstringMatches ==
    {i \in Rows(df) : HasSubstring(Lower(df[i].title), Strip(Lower(query)))}

\* C6: when at least one title matches, the anchor is the first row in storage
\* order whose lower-cased title contains the normalised query as a substring.
C6_FirstSubstringMatch ==
    search_mode = "Title" /\ idx # -1 /\ SubstringMatches # {} =>
        idx = FirstRow(SubstringMatches)

\* C7: when no title contains the normalised query, the request ends in a
\* not-found outcome carrying the original query and produces no ranking.
C7_NotFound ==
    search_mode = "Title" /\ SubstringMatches = {} /\ pc = "done" =>
        /\ outcome.kind \in {"not_found", "search_first"}
        /\ outcome.query = query
        /\ hybrid_score = <<>>
        /\ recs = <<>>

AllWeightsZero == \A k \in WeightNames : weights[k] = 0

\* C8: when all five raw weights are zero the request ends in a
\* configuration-error outcome: no division by the zero sum is attempted, no
\* default weights are substituted and no ranked list is returned.
C8_ConfigurationError ==
    AllWeightsZero /\ pc = "done" =>
        /\ outcome.kind = "ConfigurationError"
        /\ recs = <<>>

RawTotal ==
    weights.title + weights.genre + weights.rating + weights.year + weights.cluster

\* The composite score of item i for anchor a, from the raw inputs.
ExpectedScore(i, a) ==
    Rat(weights.title * cosine_sim[a][i] + weights.genre * genre_sim[a][i]
          + weights.rating * rating_sim[a][i] + weights.year * year_sim[a][i]
          + weights.cluster * (IF df[i].cluster = df[a].cluster THEN SimScale ELSE 0),
        RawTotal * SimScale)

\* C9: each weight in use is its raw value divided by the sum of the five raw
\* weights, and every item's composite score is the normalised-weight sum of
\* the four matrix entries of the anchor's row plus the full normalised cluster
\* weight when the item shares the anchor's cluster and zero otherwise.
C9_ScoreFormula ==
    hybrid_score # <<>> =>
        /\ \A k \in WeightNames : w[k] = Rat(weights[k], RawTotal)
        /\ \A i \in Rows(df) : hybrid_score[i] = ExpectedScore(i, idx)

\* Scores were computed with every weight positive for an item of another
\* cluster than the anchor's that is similar to it in title only.
C9_Witness ==
    /\ hybrid_score # <<>>
    /\ \A k \in WeightNames : weights[k] > 0
    /\ \E i \in Rows(df) :
           /\ df[i].cluster # df[idx].cluster
           /\ cosine_sim[idx][i] = SimScale
           /\ genre_sim[idx][i] = 0
           /\ Zero # hybrid_score[i]

\* The preconditions of the self-similarity bound.
WellFormedInputs ==
    /\ \A m \in {cosine_sim, genre_sim, rating_sim, year_sim} :
           /\ m[idx][idx] = SimScale
           /\ \A i \in Rows(df) : m[idx][i] \in 0..SimScale
    /\ \A k \in WeightNames : weights[k] >= 0
    /\ ~AllWeightsZero

\* C10: with matrices in [0,1] of diagonal 1 and non-negative weights not all
\* zero, the anchor's own composite score equals the sum of the five
\* normalised weights, the full total, and no item scores above the anchor.
C10_AnchorIsMaximal ==
    hybrid_score # <<>> /\ WellFormedInputs =>
        /\ hybrid_score[idx] = WeightSum(w)
        /\ hybrid_score[idx] = One
        /\ \A i \in Rows(df) : RatLeq(hybrid_score[i], hybrid_score[idx])

\* Scores were computed with every weight positive and another item scores
\* exactly as high as the anchor: the bound is reached.
C10_Witness ==
    /\ hybrid_score # <<>> /\ WellFormedInputs
    /\ \A k \in WeightNames : weights[k] > 0
    /\ \E i \in Rows(df) \ {idx} : hybrid_score[i] = hybrid_score[idx]

====
